---- MODULE Spec2Model ----
(***************************************************************************)
(* Model of claude_code_installer.py: the detection-driven install /       *)
(* uninstall orchestration of the four stages WSL, Ubuntu, Claude Code and *)
(* Context Menu, as driven by the console front end (ClaudeInstaller,      *)
(* main) and by the worker bodies of the GUI front end                     *)
(* (ClaudeInstallerGUI).                                                   *)
(*                                                                         *)
(* The host is part of the state: whether the process is elevated, how the *)
(* wsl executable behaves (runs, is missing, hangs past run_command's      *)
(* timeout), which components are present, which registry keys and files   *)
(* of the context menu exist.  Nothing but the installer changes the host, *)
(* so two consecutive runs are always runs "with no external change in     *)
(* between".  A mutating external command that runs may still exit         *)
(* non-zero: that is an input of the step that issues it.                  *)
(***************************************************************************)
EXTENDS Integers, FiniteSets, Sequences, TLC

VARIABLES
    admin,       \* is_admin(): the process is elevated
    wslTool,     \* behaviour of the wsl executable under run_command
    wsl,         \* `wsl --version` exits 0 when it runs
    ubuntu,      \* `wsl -l -v` exits 0 and lists ubuntu when it runs
    claude,      \* the interactive-shell queries find claude when they run
    reg,         \* registry keys of the context menu that exist
    launcher,    \* C:/Scripts/open_in_claude.cmd exists
    scriptsDir,  \* C:/Scripts exists
    frontend,    \* "console" (ClaudeInstaller / main) or "gui" (worker body)
    mode,        \* "full", "context", "uninstall", "status"
    pc,          \* position of the run in its handler
    sat,         \* per stage: result of the probe that decides the stage
    probes,      \* per stage: number of probe calls in this run
    calls,       \* per function: number of invocations in this run
    failed,      \* functions that returned False in this run
    result,      \* "none", "success", "failure": what the run reported
    raised,      \* an exception left the run (main's handler / the thread)
    exitCode,    \* console: process exit code, -1 while running
    prompt,      \* answers the operator gave to input() prompts
    start,       \* the host as it was when the run started
    prev,        \* summary of the previous run
    seen,        \* per stage: the functions already invoked in this run
                 \* when the probe result in sat was obtained
    buttons,     \* GUI: state of the three buttons
    progress,    \* GUI: the progress bar is running
    workers,     \* GUI: position of each worker thread
    refreshed,   \* GUI: the workers whose closing update_status has probed
                 \* the four stages and written the status labels
    fin,         \* a function under study and its arguments
    fout         \* what that function returned

host == <<admin, wslTool, wsl, ubuntu, claude>>
ctx  == <<reg, launcher, scriptsDir>>
hist == <<sat, seen, probes, calls, failed, prompt>>
gui  == <<buttons, progress, workers, refreshed>>
pure == <<fin, fout>>
aux  == <<gui, pure>>
core == <<admin, wslTool, wsl, ubuntu, claude, reg, launcher, scriptsDir,
          frontend, mode, pc, sat, probes, calls, failed, result, raised,
          exitCode, prompt, start, prev, seen>>
vars == <<core, aux>>

(***************************************************************************)
(* The chain, in the order both front ends walk it.                        *)
(***************************************************************************)
Chain == <<"WSL", "Ubuntu", "Claude Code", "Context Menu">>

Stages == {Chain[i] : i \in 1..Len(Chain)}

Pos(s) == CHOOSE i \in 1..Len(Chain) : Chain[i] = s

ApplyFns(s) ==
    CASE s = "WSL"          -> {"install_wsl"}
      [] s = "Ubuntu"       -> {"install_ubuntu"}
      [] s = "Claude Code"  -> {"setup_ubuntu_environment", "install_claude_code"}
      [] s = "Context Menu" -> {"install_context_menu"}

ReverseFns == {"uninstall_context_menu"}

Fns == UNION {ApplyFns(s) : s \in Stages} \cup ReverseFns

Keys == {"bg", "bgcmd", "dir", "dircmd"}

NoCalls  == [f \in Fns |-> 0]
NoProbes == [s \in Stages |-> 0]
Unknown  == [s \in Stages |-> "unknown"]
NoPrompt == [restart |-> "none", update |-> "none", continue |-> "none"]
NoSeen   == [s \in Stages |-> {}]

(***************************************************************************)
(* run_command: FileNotFoundError when the executable is missing,          *)
(* TimeoutExpired when it hangs; with check=True a non-zero exit raises    *)
(* CalledProcessError, with check=False it is returned.                    *)
(***************************************************************************)
run_command(tool, exitsZero, check) ==
    CASE tool = "missing" -> "FileNotFoundError"
      [] tool = "hang"    -> "TimeoutExpired"
      [] OTHER            -> IF exitsZero THEN "rc0"
                             ELSE IF check THEN "CalledProcessError" ELSE "rc1"

(***************************************************************************)
(* The probes.  Each returns "yes", "no" or "raise".                       *)
(***************************************************************************)
is_wsl_installed(tool, w) ==
    LET r == run_command(tool, w, FALSE) IN
    CASE r = "FileNotFoundError" -> "no"
      [] r \in {"rc0", "rc1"}    -> IF r = "rc0" THEN "yes" ELSE "no"
      [] OTHER                   -> "raise"

is_ubuntu_installed(tool, u) ==
    LET r == run_command(tool, u, FALSE) IN
    IF r = "rc0" THEN "yes" ELSE "no"

is_claude_installed(tool, c) ==
    LET r == run_command(tool, c, FALSE) IN
    IF r = "rc0" THEN "yes" ELSE "no"

is_installed(r) == IF "bg" \in r THEN "yes" ELSE "no"

Probe(s) ==
    CASE s = "WSL"          -> is_wsl_installed(wslTool, wsl)
      [] s = "Ubuntu"       -> is_ubuntu_installed(wslTool, ubuntu)
      [] s = "Claude Code"  -> is_claude_installed(wslTool, claude)
      [] s = "Context Menu" -> is_installed(reg)

(***************************************************************************)
(* The installers of the first three stages: True iff every command of the *)
(* installer ran and exited 0; any exception is caught and gives False.    *)
(* An installer that returns True leaves its component present (its probe  *)
(* is satisfied from then on); one that returns False leaves the component *)
(* as it was.                                                              *)
(***************************************************************************)
install_cmd(tool, exitsZero) == run_command(tool, exitsZero, TRUE) = "rc0"

(***************************************************************************)
(* ContextMenuManager.install_context_menu, create_launcher_script         *)
(* included.  Its steps, in order: 1 mkdir C:/Scripts, 2 write the         *)
(* launcher, 3 create the Directory\Background key, 4 create its command   *)
(* subkey, 5 create the Directory key, 6 create its command subkey.        *)
(* failAt = k: step k raises and the steps before it have taken effect;    *)
(* failAt = 0: nothing raises.                                             *)
(***************************************************************************)
InstallSteps == 6

install_context_menu_KeysFirst(r, l, d, failAt) ==
    LET done(k) == failAt = 0 \/ failAt > k IN
    [ dir      |-> d \/ done(5),
      launcher |-> l \/ done(6),
      reg      |-> r \cup (IF done(1) THEN {"bg"} ELSE {})
                     \cup (IF done(2) THEN {"bgcmd"} ELSE {})
                     \cup (IF done(3) THEN {"dir"} ELSE {})
                     \cup (IF done(4) THEN {"dircmd"} ELSE {}),
      ok       |-> failAt = 0 ]

install_context_menu_Rollback(r, l, d, failAt) ==
    [ dir      |-> d \/ failAt = 0,
      launcher |-> l \/ failAt = 0,
      reg      |-> IF failAt = 0 THEN Keys ELSE r,
      ok       |-> failAt = 0 ]

install_context_menu(r, l, d, failAt) ==
    LET done(k) == failAt = 0 \/ failAt > k IN
    [ dir      |-> d \/ done(1),
      launcher |-> l \/ done(2),
      reg      |-> r \cup (IF done(3) THEN {"bg"} ELSE {})
                     \cup (IF done(4) THEN {"bgcmd"} ELSE {})
                     \cup (IF done(5) THEN {"dir"} ELSE {})
                     \cup (IF done(6) THEN {"dircmd"} ELSE {}),
      ok       |-> failAt = 0 ]

(***************************************************************************)
(* ContextMenuManager.uninstall_context_menu.  DeleteKey raises when the   *)
(* key does not exist or when the call is refused (fault names the call    *)
(* that is refused); each pair of deletes sits in one try block, so a      *)
(* raise on the command subkey skips the delete of its parent.  A refused  *)
(* unlink reaches the outer handler and gives False; a refused rmdir is    *)
(* swallowed.                                                              *)
(***************************************************************************)
UninstallFaults == {"none", "bgcmd", "bg", "dircmd", "dir", "unlink", "rmdir"}

DeletePair(r, sub, key, fault) ==
    IF sub \notin r \/ fault = sub THEN r
    ELSE IF key \notin r \/ fault = key THEN r \ {sub}
    ELSE r \ {sub, key}

uninstall_context_menu(r, l, d, fault) ==
    LET r1 == DeletePair(r, "bgcmd", "bg", fault)
        r2 == DeletePair(r1, "dircmd", "dir", fault)
        unlinkRaises == l /\ fault = "unlink"
        l2 == IF unlinkRaises THEN l ELSE FALSE
        d2 == IF unlinkRaises \/ fault = "rmdir" THEN d ELSE FALSE
    IN [ reg |-> r2, launcher |-> l2, dir |-> d2, ok |-> ~unlinkRaises ]

(***************************************************************************)
(* WSLManager.setup_ubuntu_environment, command by command: 1 apt update,  *)
(* 2 apt upgrade, 3 apt install of the essential packages, 4 the           *)
(* nodesource setup script, 5 apt install nodejs, 6 node --version,        *)
(* 7 npm --version.  Every command runs with check=True inside one try     *)
(* block; the first five change the guest, the last two only read it.      *)
(* failAt = k: command k raises; failAt = 0: none does.  When wsl.exe is   *)
(* missing or hangs the first command raises.                              *)
(***************************************************************************)
SetupSteps == 7
SetupChanging == 1..5

setup_ubuntu_environment(tool, failAt) ==
    LET n == IF tool # "ok" THEN 0
             ELSE IF failAt = 0 THEN SetupSteps ELSE failAt - 1
    IN [ effects |-> (1..n) \cap SetupChanging,
         ok      |-> tool = "ok" /\ failAt = 0 ]

(***************************************************************************)
(* ClaudeCodeManager.is_claude_installed, query by query.  q1 is what      *)
(* 'which claude' gives and q2 what 'claude --version' gives, both run in  *)
(* an interactive shell with check=False: r is run_command's outcome and   *)
(* out the captured stdout, a string over MaxOut characters at most.       *)
(* str.strip() removes leading and trailing whitespace, and the empty      *)
(* string is false.  result is the value returned, issued2 tells whether   *)
(* the second query was run.                                               *)
(***************************************************************************)
MaxOut == 2
Whitespace == {" ", "\n"}
Chars == Whitespace \cup {"c"}
Outputs == UNION {[1..n -> Chars] : n \in 0..MaxOut}
Exceptions == {"FileNotFoundError", "TimeoutExpired"}
Queries ==
    [r : {"rc0", "rc1"}, out : Outputs] \cup [r : Exceptions, out : {<<>>}]

RECURSIVE lstrip(_)
lstrip(s) ==
    IF s = <<>> THEN s
    ELSE IF Head(s) \in Whitespace THEN lstrip(Tail(s)) ELSE s

RECURSIVE rstrip(_)
rstrip(s) ==
    IF s = <<>> THEN s
    ELSE IF s[Len(s)] \in Whitespace THEN rstrip(SubSeq(s, 1, Len(s) - 1))
    ELSE s

strip(s) == rstrip(lstrip(s))

is_claude_installed_queries_NoStrip(q1, q2) ==
    IF q1.r \in Exceptions THEN [result |-> FALSE, issued2 |-> FALSE]
    ELSE IF q1.r = "rc0" /\ q1.out # <<>>
         THEN [result |-> TRUE, issued2 |-> FALSE]
    ELSE IF q2.r \in Exceptions THEN [result |-> FALSE, issued2 |-> TRUE]
    ELSE [result |-> q2.r = "rc0", issued2 |-> TRUE]

is_claude_installed_queries(q1, q2) ==
    IF q1.r \in Exceptions THEN [result |-> FALSE, issued2 |-> FALSE]
    ELSE IF q1.r = "rc0" /\ strip(q1.out) # <<>>
         THEN [result |-> TRUE, issued2 |-> FALSE]
    ELSE IF q2.r \in Exceptions THEN [result |-> FALSE, issued2 |-> TRUE]
    ELSE [result |-> q2.r = "rc0", issued2 |-> TRUE]

(***************************************************************************)
(* Host snapshot and run summary.                                          *)
(***************************************************************************)
Host == [admin |-> admin, wslTool |-> wslTool, wsl |-> wsl, ubuntu |-> ubuntu,
         claude |-> claude, reg |-> reg, launcher |-> launcher,
         scriptsDir |-> scriptsDir]

Summary == [mode |-> mode, result |-> result, update |-> prompt.update,
            called |-> {f \in Fns : calls[f] > 0},
            sat |-> IF mode = "status" THEN sat ELSE Unknown]

NoRun == [mode |-> "none", result |-> "none", update |-> "none",
          called |-> {}, sat |-> Unknown]

(***************************************************************************)
(* The window of ClaudeInstallerGUI: three buttons, a progress bar, and    *)
(* the worker threads its click handlers start.  Between clicks nothing    *)
(* runs, the buttons are enabled and the bar is still.                     *)
(***************************************************************************)
MaxWorkers == 3
Workers == 1..MaxWorkers
NoWorker == [op |-> "none", at |-> "idle"]

GuiIdle ==
    /\ buttons = "normal"
    /\ progress = FALSE
    /\ workers = [w \in Workers |-> NoWorker]
    /\ refreshed = {}

(***************************************************************************)
(* No function is under study while the installer runs are explored.       *)
(***************************************************************************)
NoCall == [fn |-> "none"]

PureIdle ==
    /\ fin = NoCall
    /\ fout = NoCall

InstallerIdle ==
    /\ frontend = "none"
    /\ mode = "none"
    /\ pc = "idle"
    /\ sat = Unknown
    /\ probes = NoProbes
    /\ calls = NoCalls
    /\ failed = {}
    /\ result = "none"
    /\ raised = FALSE
    /\ exitCode = -1
    /\ prompt = NoPrompt
    /\ start = Host
    /\ prev = NoRun
    /\ seen = NoSeen

Init ==
    /\ admin \in BOOLEAN
    /\ wslTool \in {"ok", "missing", "hang"}
    /\ wsl \in BOOLEAN
    /\ ubuntu \in BOOLEAN
    /\ claude \in BOOLEAN
    /\ \E full \in BOOLEAN :
         /\ reg = IF full THEN Keys ELSE {}
         /\ launcher = full
         /\ scriptsDir = full
    /\ InstallerIdle
    /\ GuiIdle
    /\ PureIdle

(***************************************************************************)
(* Bookkeeping shared by the steps.                                        *)
(***************************************************************************)
Invoked == {f \in Fns : calls[f] > 0}

Probed(s, r) ==
    /\ probes' = [probes EXCEPT ![s] = @ + 1]
    /\ sat' = IF r = "raise" THEN sat ELSE [sat EXCEPT ![s] = r]
    /\ seen' = IF r = "raise" THEN seen ELSE [seen EXCEPT ![s] = Invoked]

Called(f, ok) ==
    /\ calls' = [calls EXCEPT ![f] = @ + 1]
    /\ failed' = IF ok THEN failed ELSE failed \cup {f}

SetCtx(o) ==
    /\ reg' = o.reg
    /\ launcher' = o.launcher
    /\ scriptsDir' = o.dir

Running == UNCHANGED <<result, raised, exitCode>>

(***************************************************************************)
(* main: the console modes other than --status end in                      *)
(* sys.exit(0 if success else 1); an exception that leaves the handler is  *)
(* caught by main, which exits 1.                                          *)
(***************************************************************************)
ConsoleReturn(res) ==
    /\ result' = res
    /\ raised' = raised
    /\ exitCode' = IF res = "success" THEN 0 ELSE 1
    /\ pc' = "done"

ConsoleRaise ==
    /\ result' = result
    /\ raised' = TRUE
    /\ exitCode' = 1
    /\ pc' = "done"

(***************************************************************************)
(* A run starts: the front end and the mode are the caller's choice.       *)
(***************************************************************************)
Entry(fe, m) ==
    IF fe = "console"
    THEN (IF m = "status" THEN "show_status" ELSE "check_prerequisites")
    ELSE (IF m = "status" THEN "update_status" ELSE "gui_is_admin")

Start(fe, m) ==
    /\ pc \in {"idle", "done"}
    /\ frontend' = fe
    /\ mode' = m
    /\ pc' = Entry(fe, m)
    /\ sat' = Unknown
    /\ probes' = NoProbes
    /\ calls' = NoCalls
    /\ failed' = {}
    /\ result' = "none"
    /\ raised' = FALSE
    /\ exitCode' = -1
    /\ prompt' = NoPrompt
    /\ start' = Host
    /\ prev' = IF pc = "done" THEN Summary ELSE prev
    /\ seen' = NoSeen
    /\ UNCHANGED <<host, ctx, aux>>

(***************************************************************************)
(* ClaudeInstaller.check_prerequisites: the gate of the three mutating     *)
(* console modes.  (Its Python version test cannot fail on an interpreter  *)
(* that has parsed the file's f-strings; its Windows version query only    *)
(* prints.)                                                                *)
(***************************************************************************)
AfterPrerequisites(m) ==
    CASE m = "full"      -> "full_wsl"
      [] m = "context"   -> "context_claude"
      [] m = "uninstall" -> "uninstall_probe"

\* Mutant: the gate lets a caller that is not elevated through.
check_prerequisites_NoGate ==
    /\ pc = "check_prerequisites"
    /\ pc' = AfterPrerequisites(mode)
    /\ Running
    /\ UNCHANGED <<host, ctx, frontend, mode, hist, start, prev, aux>>

check_prerequisites ==
    /\ pc = "check_prerequisites"
    /\ IF admin
       THEN pc' = AfterPrerequisites(mode) /\ Running
       ELSE ConsoleReturn("failure")
    /\ UNCHANGED <<host, ctx, frontend, mode, hist, start, prev, aux>>

(***************************************************************************)
(* ClaudeInstaller.install_full, one step per probe, installer and prompt. *)
(***************************************************************************)
FullWslProbe ==
    /\ pc = "full_wsl"
    /\ LET r == Probe("WSL") IN
       /\ Probed("WSL", r)
       /\ IF r = "raise" THEN ConsoleRaise
          ELSE /\ pc' = IF r = "yes" THEN "full_ubuntu" ELSE "full_install_wsl"
               /\ Running
    /\ UNCHANGED <<host, ctx, frontend, mode, calls, failed, prompt, start, prev, aux>>

FullInstallWsl ==
    /\ pc = "full_install_wsl"
    /\ \E exitsZero \in BOOLEAN :
         LET ok == install_cmd(wslTool, exitsZero) IN
         /\ Called("install_wsl", ok)
         /\ wsl' = (wsl \/ ok)
         /\ IF ok THEN pc' = "full_restart" /\ Running
            ELSE ConsoleReturn("failure")
    /\ UNCHANGED <<admin, wslTool, ubuntu, claude, ctx, frontend, mode, sat, seen,
                   probes, prompt, start, prev, aux>>

FullRestart ==
    /\ pc = "full_restart"
    /\ \E ans \in {"y", "n"} :
         /\ prompt' = [prompt EXCEPT !.restart = ans]
         /\ IF ans = "y" THEN ConsoleReturn("failure")
            ELSE pc' = "full_ubuntu" /\ Running
    /\ UNCHANGED <<host, ctx, frontend, mode, sat, seen, probes, calls, failed,
                   start, prev, aux>>

\* Mutant: the result of the probe is ignored and Ubuntu is always installed.
FullUbuntuProbe_AlwaysInstall ==
    /\ pc = "full_ubuntu"
    /\ Probed("Ubuntu", Probe("Ubuntu"))
    /\ pc' = "full_install_ubuntu"
    /\ Running
    /\ UNCHANGED <<host, ctx, frontend, mode, calls, failed, prompt, start, prev, aux>>

FullUbuntuProbe ==
    /\ pc = "full_ubuntu"
    /\ LET r == Probe("Ubuntu") IN
       /\ Probed("Ubuntu", r)
       /\ pc' = IF r = "yes" THEN "full_claude" ELSE "full_install_ubuntu"
    /\ Running
    /\ UNCHANGED <<host, ctx, frontend, mode, calls, failed, prompt, start, prev, aux>>

\* Mutant: a failed install_ubuntu does not end the run.
FullInstallUbuntu_NoReturn ==
    /\ pc = "full_install_ubuntu"
    /\ \E exitsZero \in BOOLEAN :
         LET ok == install_cmd(wslTool, exitsZero) IN
         /\ Called("install_ubuntu", ok)
         /\ ubuntu' = (ubuntu \/ ok)
    /\ pc' = "full_claude"
    /\ Running
    /\ UNCHANGED <<admin, wslTool, wsl, claude, ctx, frontend, mode, sat, seen,
                   probes, prompt, start, prev, aux>>

FullInstallUbuntu ==
    /\ pc = "full_install_ubuntu"
    /\ \E exitsZero \in BOOLEAN :
         LET ok == install_cmd(wslTool, exitsZero) IN
         /\ Called("install_ubuntu", ok)
         /\ ubuntu' = (ubuntu \/ ok)
         /\ IF ok THEN pc' = "full_claude" /\ Running
            ELSE ConsoleReturn("failure")
    /\ UNCHANGED <<admin, wslTool, wsl, claude, ctx, frontend, mode, sat, seen,
                   probes, prompt, start, prev, aux>>

FullClaudeProbe ==
    /\ pc = "full_claude"
    /\ LET r == Probe("Claude Code") IN
       /\ Probed("Claude Code", r)
       /\ pc' = IF r = "yes" THEN "full_claude_again" ELSE "full_setup"
    /\ Running
    /\ UNCHANGED <<host, ctx, frontend, mode, calls, failed, prompt, start, prev, aux>>

FullSetup ==
    /\ pc = "full_setup"
    /\ \E exitsZero \in BOOLEAN :
         LET ok == install_cmd(wslTool, exitsZero) IN
         /\ Called("setup_ubuntu_environment", ok)
         /\ IF ok THEN pc' = "full_claude_again" /\ Running
            ELSE ConsoleReturn("failure")
    /\ UNCHANGED <<host, ctx, frontend, mode, sat, seen, probes, prompt, start, prev, aux>>

FullClaudeAgain ==
    /\ pc = "full_claude_again"
    /\ LET r == Probe("Claude Code") IN
       /\ Probed("Claude Code", r)
       /\ pc' = IF r = "yes" THEN "full_ctx" ELSE "full_install_claude"
    /\ Running
    /\ UNCHANGED <<host, ctx, frontend, mode, calls, failed, prompt, start, prev, aux>>

FullInstallClaude ==
    /\ pc = "full_install_claude"
    /\ \E exitsZero \in BOOLEAN :
         LET ok == install_cmd(wslTool, exitsZero) IN
         /\ Called("install_claude_code", ok)
         /\ claude' = (claude \/ ok)
         /\ IF ok THEN pc' = "full_ctx" /\ Running
            ELSE ConsoleReturn("failure")
    /\ UNCHANGED <<admin, wslTool, wsl, ubuntu, ctx, frontend, mode, sat, seen,
                   probes, prompt, start, prev, aux>>

\* Mutant: the context menu is installed whatever its probe says.
FullCtxProbe_AlwaysInstall ==
    /\ pc = "full_ctx"
    /\ Probed("Context Menu", Probe("Context Menu"))
    /\ pc' = "full_install_ctx"
    /\ Running
    /\ UNCHANGED <<host, ctx, frontend, mode, calls, failed, prompt, start, prev, aux>>

FullCtxProbe ==
    /\ pc = "full_ctx"
    /\ LET r == Probe("Context Menu") IN
       /\ Probed("Context Menu", r)
       /\ pc' = IF r = "yes" THEN "full_update" ELSE "full_install_ctx"
    /\ Running
    /\ UNCHANGED <<host, ctx, frontend, mode, calls, failed, prompt, start, prev, aux>>

FullInstallCtx ==
    /\ pc = "full_install_ctx"
    /\ \E failAt \in 0..InstallSteps :
         LET o == install_context_menu(reg, launcher, scriptsDir, failAt) IN
         /\ Called("install_context_menu", o.ok)
         /\ SetCtx(o)
         /\ ConsoleReturn(IF o.ok THEN "success" ELSE "failure")
    /\ UNCHANGED <<host, frontend, mode, sat, seen, probes, prompt, start, prev, aux>>

FullUpdate ==
    /\ pc = "full_update"
    /\ \E ans \in {"y", "n"} :
         /\ prompt' = [prompt EXCEPT !.update = ans]
         /\ IF ans = "y" THEN pc' = "full_update_uninstall" /\ Running
            ELSE ConsoleReturn("success")
    /\ UNCHANGED <<host, ctx, frontend, mode, sat, seen, probes, calls, failed,
                   start, prev, aux>>

FullUpdateUninstall ==
    /\ pc = "full_update_uninstall"
    /\ \E fault \in UninstallFaults :
         LET o == uninstall_context_menu(reg, launcher, scriptsDir, fault) IN
         /\ Called("uninstall_context_menu", o.ok)
         /\ SetCtx(o)
    /\ pc' = "full_update_install"
    /\ Running
    /\ UNCHANGED <<host, frontend, mode, sat, seen, probes, prompt, start, prev, aux>>

FullUpdateInstall ==
    /\ pc = "full_update_install"
    /\ \E failAt \in 0..InstallSteps :
         LET o == install_context_menu(reg, launcher, scriptsDir, failAt) IN
         /\ Called("install_context_menu", o.ok)
         /\ SetCtx(o)
    /\ ConsoleReturn("success")
    /\ UNCHANGED <<host, frontend, mode, sat, seen, probes, prompt, start, prev, aux>>

install_full ==
    \/ FullWslProbe \/ FullInstallWsl \/ FullRestart
    \/ FullUbuntuProbe \/ FullInstallUbuntu
    \/ FullClaudeProbe \/ FullSetup \/ FullClaudeAgain \/ FullInstallClaude
    \/ FullCtxProbe \/ FullInstallCtx
    \/ FullUpdate \/ FullUpdateUninstall \/ FullUpdateInstall

(***************************************************************************)
(* ClaudeInstaller.install_context_menu_only.                              *)
(***************************************************************************)
ContextClaudeProbe ==
    /\ pc = "context_claude"
    /\ LET r == Probe("Claude Code") IN
       /\ Probed("Claude Code", r)
       /\ pc' = IF r = "yes" THEN "context_install" ELSE "context_continue"
    /\ Running
    /\ UNCHANGED <<host, ctx, frontend, mode, calls, failed, prompt, start, prev, aux>>

ContextContinue ==
    /\ pc = "context_continue"
    /\ \E ans \in {"y", "n"} :
         /\ prompt' = [prompt EXCEPT !.continue = ans]
         /\ IF ans = "y" THEN pc' = "context_install" /\ Running
            ELSE ConsoleReturn("failure")
    /\ UNCHANGED <<host, ctx, frontend, mode, sat, seen, probes, calls, failed,
                   start, prev, aux>>

ContextInstall ==
    /\ pc = "context_install"
    /\ \E failAt \in 0..InstallSteps :
         LET o == install_context_menu(reg, launcher, scriptsDir, failAt) IN
         /\ Called("install_context_menu", o.ok)
         /\ SetCtx(o)
         /\ ConsoleReturn(IF o.ok THEN "success" ELSE "failure")
    /\ UNCHANGED <<host, frontend, mode, sat, seen, probes, prompt, start, prev, aux>>

install_context_menu_only ==
    ContextClaudeProbe \/ ContextContinue \/ ContextInstall

(***************************************************************************)
(* ClaudeInstaller.uninstall.                                              *)
(***************************************************************************)
UninstallProbe ==
    /\ pc = "uninstall_probe"
    /\ LET r == Probe("Context Menu") IN
       /\ Probed("Context Menu", r)
       /\ IF r = "yes" THEN pc' = "uninstall_remove" /\ Running
          ELSE ConsoleReturn("success")
    /\ UNCHANGED <<host, ctx, frontend, mode, calls, failed, prompt, start, prev, aux>>

UninstallRemove_AlsoRemovesClaude ==
    /\ pc = "uninstall_remove"
    /\ \E fault \in UninstallFaults :
         LET o == uninstall_context_menu(reg, launcher, scriptsDir, fault) IN
         /\ Called("uninstall_context_menu", o.ok)
         /\ SetCtx(o)
         /\ ConsoleReturn(IF o.ok THEN "success" ELSE "failure")
    /\ claude' = FALSE
    /\ UNCHANGED <<admin, wslTool, wsl, ubuntu, frontend, mode, sat, seen,
                   probes, prompt, start, prev, aux>>

UninstallRemove ==
    /\ pc = "uninstall_remove"
    /\ \E fault \in UninstallFaults :
         LET o == uninstall_context_menu(reg, launcher, scriptsDir, fault) IN
         /\ Called("uninstall_context_menu", o.ok)
         /\ SetCtx(o)
         /\ ConsoleReturn(IF o.ok THEN "success" ELSE "failure")
    /\ UNCHANGED <<host, frontend, mode, sat, seen, probes, prompt, start, prev, aux>>

uninstall == UninstallProbe \/ UninstallRemove

(***************************************************************************)
(* The four probes in chain order, as show_status and update_status issue  *)
(* them: an exception of the first probe ends the sequence.  (show_status  *)
(* also re-lists the distributions for its debug output when Ubuntu is not *)
(* found: a read-only command inside its own try/except.)                  *)
(***************************************************************************)
ProbeAll ==
    IF Probe("WSL") = "raise"
    THEN [res |-> sat, n |-> [probes EXCEPT !["WSL"] = @ + 1], raise |-> TRUE]
    ELSE [res |-> [s \in Stages |-> Probe(s)],
          n |-> [s \in Stages |-> probes[s] + 1], raise |-> FALSE]

(***************************************************************************)
(* ClaudeInstaller.show_status under main: --status calls no sys.exit, so  *)
(* the process exits 0 unless an exception reaches main's handler.         *)
(***************************************************************************)
show_status ==
    /\ pc = "show_status"
    /\ sat' = ProbeAll.res
    /\ seen' = IF ProbeAll.raise THEN seen ELSE [s \in Stages |-> Invoked]
    /\ probes' = ProbeAll.n
    /\ raised' = ProbeAll.raise
    /\ exitCode' = IF ProbeAll.raise THEN 1 ELSE 0
    /\ pc' = "done"
    /\ UNCHANGED <<host, ctx, frontend, mode, calls, failed, result, prompt,
                   start, prev, aux>>

(***************************************************************************)
(* ClaudeInstallerGUI.update_status, as called by the constructor.         *)
(***************************************************************************)
update_status ==
    /\ pc = "update_status"
    /\ sat' = ProbeAll.res
    /\ seen' = IF ProbeAll.raise THEN seen ELSE [s \in Stages |-> Invoked]
    /\ probes' = ProbeAll.n
    /\ raised' = ProbeAll.raise
    /\ pc' = "done"
    /\ UNCHANGED <<host, ctx, frontend, mode, calls, failed, result, exitCode,
                   prompt, start, prev, aux>>

(***************************************************************************)
(* The worker bodies of the GUI.  A message box decides what the run       *)
(* reported: showerror is "failure", showinfo is "success".  Every exit    *)
(* path goes through the finally block (GuiFinally).                       *)
(***************************************************************************)
GuiReport(res) ==
    /\ result' = res
    /\ pc' = "gui_finally"
    /\ UNCHANGED <<raised, exitCode>>

AfterIsAdmin(m) ==
    CASE m = "full"      -> "gui_probe"
      [] m = "context"   -> "gui_context_install"
      [] m = "uninstall" -> "gui_uninstall_remove"

GuiIsAdmin ==
    /\ pc = "gui_is_admin"
    /\ IF admin
       THEN pc' = AfterIsAdmin(mode) /\ Running
       ELSE GuiReport("failure")
    /\ UNCHANGED <<host, ctx, frontend, mode, hist, start, prev, aux>>

GuiProbe ==
    /\ pc = "gui_probe"
    /\ sat' = ProbeAll.res
    /\ seen' = IF ProbeAll.raise THEN seen ELSE [s \in Stages |-> Invoked]
    /\ probes' = ProbeAll.n
    /\ IF ProbeAll.raise THEN GuiReport("failure")
       ELSE IF \A s \in Stages : ProbeAll.res[s] = "yes" THEN GuiReport("success")
       ELSE pc' = "gui_wsl" /\ Running
    /\ UNCHANGED <<host, ctx, frontend, mode, calls, failed, prompt, start, prev, aux>>

GuiWsl ==
    /\ pc = "gui_wsl"
    /\ IF sat["WSL"] = "no"
       THEN \E exitsZero \in BOOLEAN :
              LET ok == install_cmd(wslTool, exitsZero) IN
              /\ Called("install_wsl", ok)
              /\ wsl' = (wsl \/ ok)
              /\ IF ok THEN pc' = "gui_ubuntu" /\ Running
                 ELSE GuiReport("failure")
       ELSE /\ pc' = "gui_ubuntu"
            /\ Running
            /\ UNCHANGED <<wsl, calls, failed>>
    /\ UNCHANGED <<admin, wslTool, ubuntu, claude, ctx, frontend, mode, sat, seen,
                   probes, prompt, start, prev, aux>>

\* Mutant: the worker goes on to the next stage after a failed install_ubuntu.
GuiUbuntu_NoReturn ==
    /\ pc = "gui_ubuntu"
    /\ IF sat["Ubuntu"] = "no"
       THEN \E exitsZero \in BOOLEAN :
              LET ok == install_cmd(wslTool, exitsZero) IN
              /\ Called("install_ubuntu", ok)
              /\ ubuntu' = (ubuntu \/ ok)
       ELSE UNCHANGED <<ubuntu, calls, failed>>
    /\ pc' = "gui_setup"
    /\ Running
    /\ UNCHANGED <<admin, wslTool, wsl, claude, ctx, frontend, mode, sat, seen,
                   probes, prompt, start, prev, aux>>

GuiUbuntu ==
    /\ pc = "gui_ubuntu"
    /\ IF sat["Ubuntu"] = "no"
       THEN \E exitsZero \in BOOLEAN :
              LET ok == install_cmd(wslTool, exitsZero) IN
              /\ Called("install_ubuntu", ok)
              /\ ubuntu' = (ubuntu \/ ok)
              /\ IF ok THEN pc' = "gui_setup" /\ Running
                 ELSE GuiReport("failure")
       ELSE /\ pc' = "gui_setup"
            /\ Running
            /\ UNCHANGED <<ubuntu, calls, failed>>
    /\ UNCHANGED <<admin, wslTool, wsl, claude, ctx, frontend, mode, sat, seen,
                   probes, prompt, start, prev, aux>>

GuiSetup ==
    /\ pc = "gui_setup"
    /\ IF sat["Claude Code"] = "no"
       THEN \E exitsZero \in BOOLEAN :
              LET ok == install_cmd(wslTool, exitsZero) IN
              /\ Called("setup_ubuntu_environment", ok)
              /\ IF ok THEN pc' = "gui_install_claude" /\ Running
                 ELSE GuiReport("failure")
       ELSE /\ pc' = "gui_ctx"
            /\ Running
            /\ UNCHANGED <<calls, failed>>
    /\ UNCHANGED <<host, ctx, frontend, mode, sat, seen, probes, prompt, start, prev, aux>>

GuiInstallClaude ==
    /\ pc = "gui_install_claude"
    /\ \E exitsZero \in BOOLEAN :
         LET ok == install_cmd(wslTool, exitsZero) IN
         /\ Called("install_claude_code", ok)
         /\ claude' = (claude \/ ok)
         /\ IF ok THEN pc' = "gui_ctx" /\ Running
            ELSE GuiReport("failure")
    /\ UNCHANGED <<admin, wslTool, wsl, ubuntu, ctx, frontend, mode, sat, seen,
                   probes, prompt, start, prev, aux>>

GuiCtx ==
    /\ pc = "gui_ctx"
    /\ IF sat["Context Menu"] = "no"
       THEN \E failAt \in 0..InstallSteps :
              LET o == install_context_menu(reg, launcher, scriptsDir, failAt) IN
              /\ Called("install_context_menu", o.ok)
              /\ SetCtx(o)
              /\ GuiReport(IF o.ok THEN "success" ELSE "failure")
       ELSE /\ GuiReport("success")
            /\ UNCHANGED <<ctx, calls, failed>>
    /\ UNCHANGED <<host, frontend, mode, sat, seen, probes, prompt, start, prev, aux>>

install_everything ==
    GuiProbe \/ GuiWsl \/ GuiUbuntu \/ GuiSetup \/ GuiInstallClaude \/ GuiCtx

GuiContextInstall ==
    /\ pc = "gui_context_install"
    /\ \E failAt \in 0..InstallSteps :
         LET o == install_context_menu(reg, launcher, scriptsDir, failAt) IN
         /\ Called("install_context_menu", o.ok)
         /\ SetCtx(o)
         /\ GuiReport(IF o.ok THEN "success" ELSE "failure")
    /\ UNCHANGED <<host, frontend, mode, sat, seen, probes, prompt, start, prev, aux>>

GuiUninstallRemove ==
    /\ pc = "gui_uninstall_remove"
    /\ \E fault \in UninstallFaults :
         LET o == uninstall_context_menu(reg, launcher, scriptsDir, fault) IN
         /\ Called("uninstall_context_menu", o.ok)
         /\ SetCtx(o)
         /\ GuiReport(IF o.ok THEN "success" ELSE "failure")
    /\ UNCHANGED <<host, frontend, mode, sat, seen, probes, prompt, start, prev, aux>>

GuiFinally ==
    /\ pc = "gui_finally"
    /\ probes' = ProbeAll.n
    /\ raised' = ProbeAll.raise
    /\ pc' = "done"
    /\ UNCHANGED <<host, ctx, frontend, mode, sat, seen, calls, failed, result,
                   exitCode, prompt, start, prev, aux>>

Modes == {"full", "context", "uninstall", "status"}

Next ==
    \/ \E fe \in {"console", "gui"}, m \in Modes : Start(fe, m)
    \/ check_prerequisites
    \/ install_full
    \/ install_context_menu_only
    \/ uninstall
    \/ show_status
    \/ GuiIsAdmin
    \/ install_everything
    \/ GuiContextInstall
    \/ GuiUninstallRemove
    \/ GuiFinally
    \/ update_status

Spec == Init /\ [][Next]_vars

(***************************************************************************)
(* The functions studied on their own.  A behaviour picks one call (the    *)
(* function and its arguments, among them the point where a step raises)   *)
(* and performs it; the installer and the window are at rest meanwhile.    *)
(* The registry states are those a sequence of installs and uninstalls     *)
(* can leave: a command subkey exists only under its key, and the launcher *)
(* only inside C:/Scripts.                                                 *)
(***************************************************************************)
RegStates == {r \in SUBSET Keys : /\ "bgcmd" \in r => "bg" \in r
                                  /\ "dircmd" \in r => "dir" \in r}

InstallCalls ==
    {c \in [fn : {"install_context_menu"}, reg : RegStates, launcher : BOOLEAN,
            dir : BOOLEAN, failAt : 0..InstallSteps] : c.launcher => c.dir}

SetupCalls ==
    [fn : {"setup_ubuntu_environment"}, tool : {"ok", "missing", "hang"},
     failAt : 0..SetupSteps]

ProbeCalls == [fn : {"is_claude_installed"}, q1 : Queries, q2 : Queries]

InitPure ==
    /\ admin = TRUE /\ wslTool = "ok"
    /\ wsl = FALSE /\ ubuntu = FALSE /\ claude = FALSE
    /\ reg = {} /\ launcher = FALSE /\ scriptsDir = FALSE
    /\ InstallerIdle
    /\ GuiIdle
    /\ fin \in InstallCalls \cup SetupCalls \cup ProbeCalls
    /\ fout = NoCall

CallInstallContextMenu ==
    /\ fin.fn = "install_context_menu" /\ fout = NoCall
    /\ LET o == install_context_menu(fin.reg, fin.launcher, fin.dir, fin.failAt)
       IN fout' = [fn |-> fin.fn, reg |-> o.reg, launcher |-> o.launcher,
                   dir |-> o.dir, ok |-> o.ok]
    /\ UNCHANGED <<core, gui, fin>>

CallSetupUbuntuEnvironment ==
    /\ fin.fn = "setup_ubuntu_environment" /\ fout = NoCall
    /\ LET o == setup_ubuntu_environment(fin.tool, fin.failAt)
       IN fout' = [fn |-> fin.fn, effects |-> o.effects, ok |-> o.ok]
    /\ UNCHANGED <<core, gui, fin>>

CallIsClaudeInstalled ==
    /\ fin.fn = "is_claude_installed" /\ fout = NoCall
    /\ LET o == is_claude_installed_queries(fin.q1, fin.q2)
       IN fout' = [fn |-> fin.fn, result |-> o.result, issued2 |-> o.issued2]
    /\ UNCHANGED <<core, gui, fin>>

NextPure ==
    \/ CallInstallContextMenu
    \/ CallSetupUbuntuEnvironment
    \/ CallIsClaudeInstalled

SpecPure == InitPure /\ [][NextPure]_vars

(***************************************************************************)
(* The window and its threads.  The main loop handles one click at a time: *)
(* a disabled button ignores it, an enabled one runs its handler, which    *)
(* defines the worker and starts it in a new thread (627, 654, 681) and    *)
(* returns.  The worker itself calls disable_buttons first, then is_admin, *)
(* then its body, and in its finally block enable_buttons and then         *)
(* update_status.  The host is at rest here: what the bodies do to it is   *)
(* explored by Spec; every way out of a body (a return after an error box, *)
(* the end of the try block, the except block) leads to the finally block. *)
(* update_status probes the four stages and then writes the labels; an     *)
(* exception of its first probe ends the thread with the labels unwritten. *)
(* At most MaxWorkers threads exist at a time.                             *)
(***************************************************************************)
Ops == {"full", "context", "uninstall"}

InFlight(w) == workers[w].at # "idle"

Move(w, to) == workers' = [workers EXCEPT ![w].at = to]

InitGUI ==
    /\ admin \in BOOLEAN /\ wslTool \in {"ok", "missing", "hang"}
    /\ wsl = FALSE /\ ubuntu = FALSE /\ claude = FALSE
    /\ reg = {} /\ launcher = FALSE /\ scriptsDir = FALSE
    /\ InstallerIdle
    /\ GuiIdle
    /\ PureIdle

Click(op) ==
    /\ buttons = "normal"
    /\ \E w \in Workers : ~InFlight(w)
    /\ LET w == CHOOSE v \in Workers :
                  ~InFlight(v) /\ \A u \in Workers : ~InFlight(u) => v <= u
       IN /\ workers' = [workers EXCEPT ![w] = [op |-> op, at |-> "started"]]
          /\ refreshed' = refreshed \ {w}
    /\ UNCHANGED <<core, buttons, progress, pure>>

disable_buttons(w) ==
    /\ workers[w].at = "started"
    /\ buttons' = "disabled"
    /\ progress' = TRUE
    /\ Move(w, "is_admin")
    /\ UNCHANGED <<core, refreshed, pure>>

WorkerIsAdmin(w) ==
    /\ workers[w].at = "is_admin"
    /\ Move(w, IF admin THEN "body" ELSE "finally")
    /\ UNCHANGED <<core, buttons, progress, refreshed, pure>>

WorkerBody(w) ==
    /\ workers[w].at = "body"
    /\ Move(w, "finally")
    /\ UNCHANGED <<core, buttons, progress, refreshed, pure>>

enable_buttons(w) ==
    /\ workers[w].at = "finally"
    /\ buttons' = "normal"
    /\ progress' = FALSE
    /\ Move(w, "update_status")
    /\ UNCHANGED <<core, refreshed, pure>>

WorkerUpdateStatus(w) ==
    /\ workers[w].at = "update_status"
    /\ workers' = [workers EXCEPT ![w] = NoWorker]
    /\ refreshed' = IF ProbeAll.raise THEN refreshed ELSE refreshed \cup {w}
    /\ UNCHANGED <<core, buttons, progress, pure>>

NextGUI ==
    \/ \E op \in Ops : Click(op)
    \/ \E w \in Workers :
         \/ disable_buttons(w)
         \/ WorkerIsAdmin(w)
         \/ WorkerBody(w)
         \/ enable_buttons(w)
         \/ WorkerUpdateStatus(w)

SpecGUI == InitGUI /\ [][NextGUI]_vars

(***************************************************************************)
(* A started thread keeps being scheduled: every command a worker runs is  *)
(* bounded by run_command's timeout and every message box is dismissed.    *)
(* Nothing obliges the operator to click.                                  *)
(***************************************************************************)
WorkerStep(w) ==
    \/ disable_buttons(w)
    \/ WorkerIsAdmin(w)
    \/ WorkerBody(w)
    \/ enable_buttons(w)
    \/ WorkerUpdateStatus(w)

SpecGUIFair == SpecGUI /\ \A w \in Workers : WF_vars(WorkerStep(w))

TypeOK ==
    /\ admin \in BOOLEAN /\ wsl \in BOOLEAN /\ ubuntu \in BOOLEAN
    /\ claude \in BOOLEAN /\ launcher \in BOOLEAN /\ scriptsDir \in BOOLEAN
    /\ wslTool \in {"ok", "missing", "hang"}
    /\ reg \subseteq Keys
    /\ sat \in [Stages -> {"unknown", "yes", "no"}]
    /\ probes \in [Stages -> 0..2]
    /\ calls \in [Fns -> 0..1]
    /\ failed \subseteq Fns
    /\ result \in {"none", "success", "failure"}
    /\ raised \in BOOLEAN
    /\ exitCode \in {-1, 0, 1}

(***************************************************************************)
(* What a run did to a stage, read off the run's history.                  *)
(***************************************************************************)
Applied(s) == \E f \in ApplyFns(s) : calls[f] > 0

ApplyFailed(s) == ApplyFns(s) \cap failed # {}

CompletedOk(s) == \A f \in ApplyFns(s) : calls[f] = 1 /\ f \notin failed

StageOk(s) == sat[s] = "yes" \/ CompletedOk(s)

Later(i) == {j \in Stages : Pos(j) > Pos(i)}

Earlier(i) == {j \in Stages : Pos(j) < Pos(i)}

Mutating == {"full", "context", "uninstall"}

HostUntouched ==
    /\ wsl = start.wsl /\ ubuntu = start.ubuntu /\ claude = start.claude
    /\ reg = start.reg /\ launcher = start.launcher
    /\ scriptsDir = start.scriptsDir

NothingInvoked == \A f \in Fns : calls[f] = 0

(***************************************************************************)
(* C1, as stated: in a full-install run, once a stage that probed          *)
(* unsatisfied has failed to apply, no later stage has been probed or      *)
(* applied in that run, every earlier stage keeps its own outcome          *)
(* (already satisfied, or applied), and the run does not report success.   *)
(***************************************************************************)
C1_AsStated ==
    mode = "full" =>
      \A i \in Stages :
        (sat[i] = "no" /\ ApplyFailed(i)) =>
          /\ \A j \in Later(i) : probes[j] = 0 /\ ~Applied(j)
          /\ \A j \in Earlier(i) : StageOk(j)
          /\ result = "failure"

(***************************************************************************)
(* C1, amended: as above, except that only the console run leaves the      *)
(* later stages unprobed; the GUI run has probed every stage once before   *)
(* its first apply and probes them again in its closing status refresh,    *)
(* but it applies none of them.                                            *)
(***************************************************************************)
C1_FailureStopsChain ==
    mode = "full" =>
      \A i \in Stages :
        (sat[i] = "no" /\ ApplyFailed(i)) =>
          /\ \A j \in Later(i) :
               /\ ~Applied(j)
               /\ frontend = "console" => probes[j] = 0
               /\ frontend = "gui" =>
                    probes[j] = IF pc = "done" /\ ~raised THEN 2 ELSE 1
          /\ \A j \in Earlier(i) : StageOk(j)
          /\ result = "failure"

C1_Witness ==
    /\ mode = "full" /\ frontend = "console" /\ pc = "done"
    /\ sat["WSL"] = "no" /\ CompletedOk("WSL")
    /\ sat["Ubuntu"] = "no" /\ ApplyFailed("Ubuntu")
    /\ ~start.claude /\ "bg" \notin start.reg

(***************************************************************************)
(* C2, as stated: in every run of every mode a stage's apply is invoked    *)
(* at most once, and only after that stage's probe returned unsatisfied in *)
(* that run.                                                               *)
(***************************************************************************)
C2_AsStated ==
    \A s \in Stages :
      /\ \A f \in ApplyFns(s) : calls[f] <= 1
      /\ Applied(s) => sat[s] = "no"

(***************************************************************************)
(* C2, amended: every apply is invoked at most once per run.  WSL, Ubuntu  *)
(* and Claude Code are applied only in a full install and only after their *)
(* probe returned unsatisfied.  The context menu is applied in a full      *)
(* install after its probe returned unsatisfied, or after it returned      *)
(* satisfied and the operator answered yes to the console's update prompt; *)
(* in terminal-integration-only mode it is applied without its probe being *)
(* consulted.  Status and uninstall runs apply nothing.                    *)
(***************************************************************************)
C2_ApplyOnlyWhenUnsatisfied ==
    /\ \A f \in Fns : calls[f] <= 1
    /\ \A s \in Stages \ {"Context Menu"} :
         Applied(s) => mode = "full" /\ sat[s] = "no"
    /\ Applied("Context Menu") =>
         \/ mode = "full" /\ sat["Context Menu"] = "no"
         \/ /\ mode = "full" /\ frontend = "console"
            /\ sat["Context Menu"] = "yes" /\ prompt.update = "y"
         \/ mode = "context" /\ sat["Context Menu"] = "unknown"
    /\ mode \in {"status", "uninstall"} => \A s \in Stages : ~Applied(s)

C2_Witness ==
    /\ mode = "full" /\ pc = "done" /\ result = "success"
    /\ sat["WSL"] = "yes" /\ ~Applied("WSL")
    /\ sat["Ubuntu"] = "no" /\ calls["install_ubuntu"] = 1

(***************************************************************************)
(* C3: in a full-install run a stage is applied only when every earlier    *)
(* stage either probed satisfied in that run or has been applied           *)
(* successfully in that run.                                               *)
(***************************************************************************)
C3_NoApplyOnMissingPrerequisite ==
    mode = "full" =>
      \A j \in Stages : Applied(j) => \A i \in Earlier(j) : StageOk(i)

C3_Witness ==
    /\ mode = "full" /\ frontend = "gui"
    /\ calls["install_context_menu"] = 1
    /\ sat["WSL"] = "yes"
    /\ sat["Ubuntu"] = "no" /\ CompletedOk("Ubuntu")
    /\ sat["Claude Code"] = "no" /\ CompletedOk("Claude Code")

(***************************************************************************)
(* C4, as stated: a full-install run that follows a full-install run which *)
(* reported success finds every stage satisfied, reports success, and      *)
(* invokes no apply and no reverse, whatever the operator answers.         *)
(***************************************************************************)
SecondFullRun ==
    /\ mode = "full"
    /\ prev.mode = "full" /\ prev.result = "success" /\ prev.update # "y"

C5_PermissionGate ==
    (mode \in Mutating /\ ~admin) =>
      /\ NothingInvoked
      /\ HostUntouched
      /\ result # "success"
      /\ pc \in {"gui_finally", "done"} => result = "failure"
      /\ (pc = "done" /\ frontend = "console") => exitCode = 1

C5_Witness ==
    /\ mode = "full" /\ ~admin /\ pc = "done" /\ result = "failure"
    /\ wslTool = "ok" /\ ~wsl /\ ~ubuntu /\ "bg" \notin reg

(***************************************************************************)
(* C6, as stated: a completed full-install run reports success exactly     *)
(* when the caller was elevated, every stage ended satisfied or applied,   *)
(* and every apply and reverse the run invoked returned success.           *)
(***************************************************************************)
C6_SuccessIffNothingFailed ==
    (mode = "full" /\ pc = "done" /\ ~raised) =>
      (result = "success" <=>
         (admin /\ failed = {} /\ \A s \in Stages : StageOk(s)))

(***************************************************************************)
(* C7, as stated: a status query probes every stage, invokes no apply and  *)
(* no reverse, leaves the host as it was, and gives the same probe results *)
(* as the status query before it.                                          *)
(***************************************************************************)
C7_StatusProbesAllMutatesNothing ==
    mode = "status" =>
      /\ NothingInvoked
      /\ HostUntouched
      /\ pc = "done" =>
           /\ \A s \in Stages : probes[s] >= 1 /\ sat[s] \in {"yes", "no"}
           /\ prev.mode = "status" => sat = prev.sat

(***************************************************************************)
(* C8, as stated: an uninstall run by an elevated caller on a host where   *)
(* the context menu's probe is unsatisfied performs no reverse operation   *)
(* and reports success.                                                    *)
(***************************************************************************)
C8_UninstallAbsentIsNoOp ==
    (mode = "uninstall" /\ admin /\ is_installed(start.reg) = "no") =>
      /\ calls["uninstall_context_menu"] = 0
      /\ HostUntouched
      /\ pc \in {"gui_finally", "done"} => result = "success"

(***************************************************************************)
(* C9, as stated: no error of an external command leaves a run as an       *)
(* exception; every mutating run completes with a result for its front     *)
(* end.                                                                    *)
(***************************************************************************)
C9_ErrorsAreStageLocal ==
    /\ ~raised
    /\ (pc = "done" /\ mode \in Mutating) => result \in {"success", "failure"}

(***************************************************************************)
(* C10, as stated: the --status command line mode always exits with 0.     *)
(***************************************************************************)
C10_StatusExitsZero ==
    (frontend = "console" /\ mode = "status" /\ pc = "done") => exitCode = 0

(***************************************************************************)
(* What does hold of a status query: it invokes nothing and leaves the     *)
(* host as it was, and when it completes without an exception it has       *)
(* probed every stage with the results of the completed query before it.   *)
(***************************************************************************)
StatusNeverMutates ==
    mode = "status" =>
      /\ NothingInvoked
      /\ HostUntouched
      /\ (pc = "done" /\ ~raised) =>
           /\ \A s \in Stages : probes[s] = 1 /\ sat[s] \in {"yes", "no"}
           /\ prev.mode = "status" => sat = prev.sat

(***************************************************************************)
(* C11: in terminal-integration-only mode no apply of WSL, Ubuntu or       *)
(* Claude Code is invoked; when the Claude Code probe is unsatisfied the   *)
(* context menu is applied if and only if the operator confirmed the       *)
(* warning; a successful apply ends the run with success, and a refusal    *)
(* ends it with nothing invoked.                                           *)
(***************************************************************************)
ClaudeMissingAtStart == is_claude_installed(start.wslTool, start.claude) = "no"

C11_ContextOnlyAsksBeforeApplying ==
    mode = "context" =>
      /\ \A s \in Stages \ {"Context Menu"} : ~Applied(s)
      /\ calls["uninstall_context_menu"] = 0
      /\ (ClaudeMissingAtStart /\ Applied("Context Menu")) =>
           prompt.continue = "y"
      /\ (pc = "done" /\ prompt.continue = "y") => Applied("Context Menu")
      /\ prompt.continue = "n" => NothingInvoked
      /\ (pc = "done" /\ CompletedOk("Context Menu")) => result = "success"

(***************************************************************************)
(* C12: in a full-install run, when WSL probed unsatisfied and its apply   *)
(* succeeded, Ubuntu is probed or any later stage applied only after the   *)
(* caller declined the restart offer; if the caller accepted it no later   *)
(* stage is probed or applied; the offer is made only after a successful   *)
(* apply of WSL.                                                           *)
(***************************************************************************)
C12_RestartOfferedAfterWslApply ==
    mode = "full" =>
      /\ ( /\ sat["WSL"] = "no" /\ CompletedOk("WSL")
           /\ \E j \in Later("WSL") : probes[j] > 0 \/ Applied(j) )
           => prompt.restart = "n"
      /\ prompt.restart = "y" =>
           \A j \in Later("WSL") : probes[j] = 0 /\ ~Applied(j)
      /\ prompt.restart # "none" => sat["WSL"] = "no" /\ CompletedOk("WSL")

(***************************************************************************)
(* C13: an uninstall run invokes nothing but the reverse of the context    *)
(* menu, so WSL, Ubuntu and Claude Code are installed after the run        *)
(* exactly when they were installed before it.                             *)
(***************************************************************************)
C13_UninstallTouchesOnlyContextMenu ==
    mode = "uninstall" =>
      /\ \A f \in Fns \ {"uninstall_context_menu"} : calls[f] = 0
      /\ wsl = start.wsl /\ ubuntu = start.ubuntu /\ claude = start.claude

C13_Witness ==
    /\ mode = "uninstall" /\ pc = "done" /\ result = "success"
    /\ calls["uninstall_context_menu"] = 1
    /\ "bg" \in start.reg /\ "bg" \notin reg
    /\ start.wsl /\ start.ubuntu /\ start.claude
    /\ wsl /\ ubuntu /\ claude

(***************************************************************************)
(* C14: in a full-install run, when stage j has been applied or the run   *)
(* has gone past it, the probe result that decided it was obtained after   *)
(* every apply of an earlier stage invoked in that run.                    *)
(***************************************************************************)
Decided(j) ==
    /\ sat[j] # "unknown"
    /\ Applied(j) \/ (\E k \in Later(j) : Applied(k)) \/ result = "success"

C14_ProbesReissuedAfterApply ==
    mode = "full" =>
      \A j \in Stages :
        Decided(j) =>
          \A i \in Earlier(j) : \A f \in ApplyFns(i) :
            calls[f] > 0 => f \in seen[j]

(***************************************************************************)
(* C18: when an uninstall run has called uninstall_context_menu and it     *)
(* returned success, both marker entries and the launcher are gone and     *)
(* is_installed reports unsatisfied.                                       *)
(***************************************************************************)
ReverseSucceeded ==
    /\ mode = "uninstall"
    /\ calls["uninstall_context_menu"] = 1
    /\ "uninstall_context_menu" \notin failed

C18_SuccessfulReverseLeavesAbsent ==
    ReverseSucceeded =>
      /\ reg \cap {"bg", "dir"} = {}
      /\ ~launcher
      /\ is_installed(reg) = "no"

(***************************************************************************)
(* C19: whenever is_installed reports satisfied, the launcher exists and   *)
(* both marker entries exist with their command sub-entries.               *)
(***************************************************************************)
C19_SatisfiedMeansComplete ==
    is_installed(reg) = "yes" => launcher /\ Keys \subseteq reg

(***************************************************************************)
(* C16: after any call of install_context_menu, whichever step raised: a   *)
(* marker entry was created by the call only if the launcher exists, the   *)
(* Directory entry was created only if the Directory\Background entry and  *)
(* its command exist, and when making C:/Scripts or writing the launcher   *)
(* raised, the call created no marker entry and returned failure.          *)
(***************************************************************************)
InstallReturned ==
    fin.fn = "install_context_menu" /\ fout.fn = "install_context_menu"

Created == fout.reg \ fin.reg

C16_LauncherBeforeMarkers ==
    InstallReturned =>
      /\ Created # {} => fout.launcher /\ fout.dir
      /\ Created \cap {"dir", "dircmd"} # {} => {"bg", "bgcmd"} \subseteq fout.reg
      /\ fin.failAt \in {1, 2} => Created = {} /\ ~fout.ok
      /\ fout.ok => fout.launcher /\ Keys \subseteq fout.reg

C16_Witness ==
    /\ InstallReturned
    /\ fin.reg = {} /\ ~fin.launcher /\ fin.failAt = 2
    /\ fout.reg = {} /\ ~fout.launcher /\ ~fout.ok

(***************************************************************************)
(* C17: a call of install_context_menu or setup_ubuntu_environment in      *)
(* which a step raised returns failure and leaves in place what the steps  *)
(* before it did: C:/Scripts, the launcher and every registry key created  *)
(* before the failing step, and the guest changes of every setup command   *)
(* before the failing one.                                                 *)
(***************************************************************************)
SetupReturned ==
    fin.fn = "setup_ubuntu_environment" /\ fout.fn = "setup_ubuntu_environment"

StepEffect(k) ==
    CASE k = 3 -> "bg" [] k = 4 -> "bgcmd" [] k = 5 -> "dir" [] k = 6 -> "dircmd"

C17_NoRollback ==
    /\ (InstallReturned /\ fin.failAt # 0) =>
         /\ ~fout.ok
         /\ fout.dir = (fin.dir \/ fin.failAt > 1)
         /\ fout.launcher = (fin.launcher \/ fin.failAt > 2)
         /\ fout.reg = fin.reg \cup {StepEffect(k) : k \in 3..(fin.failAt - 1)}
    /\ (SetupReturned /\ fin.tool = "ok" /\ fin.failAt # 0) =>
         /\ ~fout.ok
         /\ fout.effects = {k \in SetupChanging : k < fin.failAt}

C17_Witness ==
    /\ InstallReturned
    /\ fin.reg = {} /\ ~fin.launcher /\ ~fin.dir /\ fin.failAt = 5
    /\ ~fout.ok /\ fout.launcher /\ fout.reg = {"bg", "bgcmd"}

(***************************************************************************)
(* C20, as stated: is_claude_installed returns True exactly when 'which    *)
(* claude' exits 0 with non-empty output, or else 'claude --version' exits *)
(* 0; the second query is issued only when the first did not satisfy the   *)
(* probe; an exception of either query gives False.                        *)
(***************************************************************************)
ProbeReturned ==
    fin.fn = "is_claude_installed" /\ fout.fn = "is_claude_installed"

TwoPhaseOr(phase1) ==
    /\ fout.result <=>
         \/ phase1
         \/ ~phase1 /\ fin.q1.r \notin Exceptions /\ fin.q2.r = "rc0"
    /\ fout.issued2 => ~phase1
    /\ fin.q1.r \in Exceptions => ~fout.result
    /\ (fout.issued2 /\ fin.q2.r \in Exceptions) => ~fout.result

C20_AsStated ==
    ProbeReturned =>
      TwoPhaseOr(fin.q1.r = "rc0" /\ Len(fin.q1.out) > 0)

(***************************************************************************)
(* C20, amended: as above, where the first phase satisfies the probe when  *)
(* 'which claude' exits 0 and its output holds a character that is not     *)
(* whitespace (output made of whitespace only counts as empty).            *)
(***************************************************************************)
C20_TwoPhaseOrOnStrippedOutput ==
    ProbeReturned =>
      TwoPhaseOr(/\ fin.q1.r = "rc0"
                 /\ \E i \in 1..Len(fin.q1.out) : fin.q1.out[i] \notin Whitespace)

C20_Witness ==
    /\ ProbeReturned
    /\ fin.q1 = [r |-> "rc0", out |-> <<" ">>]
    /\ fin.q2.r = "rc1"
    /\ fout.issued2 /\ ~fout.result

(***************************************************************************)
(* C15: in the GUI, for every interleaving of clicks and worker steps,     *)
(* at most one worker thread is between the start and the end of its run;  *)
(* in particular no two workers are at once in their body (probing,        *)
(* applying, reversing) or in their closing probe of the four stages.      *)
(***************************************************************************)
Working(w) == workers[w].at \in {"body", "update_status"}

C15_AtMostOneRunInFlight ==
    Cardinality({w \in Workers : Working(w)}) <= 1

(***************************************************************************)
(* C21: every worker thread that has been started leads to a state where   *)
(* the three buttons are enabled and the progress bar is stopped, and to a *)
(* state where its closing update_status has probed the four stages and    *)
(* refreshed the status display.                                           *)
(***************************************************************************)
Started(w) == workers[w].at = "started"

Released == buttons = "normal" /\ ~progress

C21_WorkerReleasesInterface ==
    \A w \in Workers :
      /\ Started(w) ~> Released
      /\ Started(w) ~> (w \in refreshed)

(***************************************************************************)
(* The part of C21 about the buttons and the progress bar alone.           *)
(***************************************************************************)
WorkerReleasesButtons == \A w \in Workers : Started(w) ~> Released

====
